---- MODULE Spec2Model ----
(***************************************************************************)
(* A model of the appoptics_metrics client library:                        *)
(*   - AppOpticsConnection._mexe and its helpers (request, retry, backoff) *)
(*   - AppOpticsConnection._get_paginated_results (pagination walk)        *)
(*   - Aggregator (add / add_tagged / clear / submit, measure time)        *)
(*   - AppOpticsConnection.create_tagged_payload (tag resolution)          *)
(*   - exceptions.get / ClientError (error classification)                 *)
(* Each component has its own specification over the shared variables.     *)
(***************************************************************************)
EXTENDS Integers, Sequences, FiniteSets, TLC

(***************************************************************************)
(* Python values.  A value is a record whose field k is its type and whose *)
(* field v is its content; a dict is a sequence of <<key, value>> pairs in *)
(* insertion order, a list is a sequence of values.                        *)
(***************************************************************************)
PyNone == [k |-> "none", v |-> <<>>]
PyStr(s) == [k |-> "str", v |-> s]
PyInt(n) == [k |-> "int", v |-> n]
PyList(xs) == [k |-> "list", v |-> xs]
PyDict(kvs) == [k |-> "dict", v |-> kvs]
PyBool(b) == [k |-> "bool", v |-> b]

\* key in d
HasKey(d, key) == \E i \in 1..Len(d.v) : d.v[i][1] = key

\* d[key], for a key that is present
GetItem(d, key) == d.v[CHOOSE i \in 1..Len(d.v) : d.v[i][1] = key][2]

\* d.get(key, default)
Get(d, key, default) == IF HasKey(d, key) THEN GetItem(d, key) ELSE default

\* d with d[key] = val (dict.__setitem__: a present key keeps its position)
SetItem(d, key, val) ==
    IF HasKey(d, key)
    THEN PyDict([i \in 1..Len(d.v) |-> IF d.v[i][1] = key THEN <<key, val>> ELSE d.v[i]])
    ELSE PyDict(Append(d.v, <<key, val>>))

\* d without key
DelItem(d, key) == PyDict(SelectSeq(d.v, LAMBDA kv : kv[1] # key))

\* Python truthiness of a value
Truthy(x) ==
    CASE x.k = "none" -> FALSE
      [] x.k = "bool" -> x.v
      [] x.k = "int" -> x.v # 0
      [] x.k = "str" -> x.v # ""
      [] OTHER -> Len(x.v) > 0

RECURSIVE JoinStrings(_, _)
\* sep.join(xs) for a sequence of TLA+ strings
JoinStrings(xs, sep) ==
    IF Len(xs) = 0 THEN ""
    ELSE IF Len(xs) = 1 THEN xs[1]
    ELSE xs[1] \o sep \o JoinStrings(Tail(xs), sep)

RECURSIVE Repr(_)
\* str(x) of a value nested in a container, and of a non-string value
Repr(x) ==
    CASE x.k = "none" -> "None"
      [] x.k = "bool" -> (IF x.v THEN "True" ELSE "False")
      [] x.k = "int" -> ToString(x.v)
      [] x.k = "str" -> "'" \o x.v \o "'"
      [] x.k = "list" ->
           "[" \o JoinStrings([i \in 1..Len(x.v) |-> Repr(x.v[i])], ", ") \o "]"
      [] OTHER ->
           "{" \o JoinStrings([i \in 1..Len(x.v) |->
                      "'" \o x.v[i][1] \o "': " \o Repr(x.v[i][2])], ", ") \o "}"

\* "%s" % x
Format(x) == IF x.k = "str" THEN x.v ELSE Repr(x)

(***************************************************************************)
(* exceptions.py                                                           *)
(***************************************************************************)
\* The outcome of a computation that may raise: exc = "" when it returned.
Returned(val) == [exc |-> "", val |-> val]
Raised(exc) == [exc |-> exc, val |-> PyNone]

\* ", ".join(xs): every item must be a str
StrJoin(xs) ==
    IF \A i \in 1..Len(xs) : xs[i].k = "str"
    THEN Returned(PyStr(JoinStrings([i \in 1..Len(xs) |-> xs[i].v], ", ")))
    ELSE Raised("TypeError")

\* iterating x: the keys of a dict, the items of a list, the characters of a
\* str (their content is not needed: indexing a str by one raises)
Iterable(x) == x.k \in {"dict", "list", "str"}

\* whether one of the outcomes raised, and the first exception raised
AnyRaised(outs) == \E i \in 1..Len(outs) : outs[i].exc # ""

FirstRaised(outs) ==
    Raised(outs[CHOOSE i \in 1..Len(outs) :
                  outs[i].exc # "" /\ \A j \in 1..(i-1) : outs[j].exc = ""].exc)

\* ", ".join(inner) for the value of the first key of a nested mapping: the
\* items of a list, the characters of a str, the keys of a dict
JoinInner(inner) ==
    CASE inner.k = "list" -> StrJoin(inner.v)
      [] inner.k = "str" ->
           Returned(PyStr(JoinStrings([i \in 1..Len(inner.v) |-> SubSeq(inner.v, i, i)], ", ")))
      [] inner.k = "dict" ->
           Returned(PyStr(JoinStrings([i \in 1..Len(inner.v) |-> inner.v[i][1]], ", ")))
      [] OTHER -> Raised("TypeError")

\* "%s: %s" % (k, messages) for the joined messages of the first key k
FirstKeyMessage(key, joined) ==
    IF joined.exc # "" THEN joined
    ELSE Returned(PyStr(key \o ": " \o joined.val.v))

_flatten_error_message(error_msg) ==
    CASE error_msg.k = "str" -> Returned(error_msg)
      [] error_msg.k = "list" -> StrJoin(error_msg.v)
      [] error_msg.k = "dict" ->
           IF Len(error_msg.v) = 0 THEN Returned(PyNone)
           ELSE FirstKeyMessage(error_msg.v[1][1], JoinInner(error_msg.v[1][2]))
      [] OTHER -> Returned(PyNone)

\* the messages of a field whose value is a mapping, flat being its values
\* flattened: msg = "%s: %s: " % (key, k); msg += flattened
NestedMessages(key, error_list, flat) ==
    IF AnyRaised(flat) THEN FirstRaised(flat)
    ELSE IF \E i \in 1..Len(flat) : flat[i].val.k # "str" THEN Raised("TypeError")
    ELSE Returned(PyList([i \in 1..Len(flat) |->
             PyStr(key \o ": " \o error_list.v[i][1] \o ": " \o flat[i].val.v)]))

\* the messages contributed by one field of the 'errors' mapping
FieldMessages(key, error_list) ==
    CASE error_list.k = "str" -> Returned(PyList(<<PyStr(key \o ": " \o error_list.v)>>))
      [] error_list.k = "list" ->
           Returned(PyList([i \in 1..Len(error_list.v) |->
                       PyStr(key \o ": " \o Format(error_list.v[i]))]))
      [] error_list.k = "dict" ->
           NestedMessages(key, error_list,
               [i \in 1..Len(error_list.v) |-> _flatten_error_message(error_list.v[i][2])])
      [] OTHER -> Returned(PyList(<<>>))

RECURSIVE ConcatLists(_)
ConcatLists(ls) == IF Len(ls) = 0 THEN <<>> ELSE ls[1].v \o ConcatLists(Tail(ls))

\* variant: the lines are joined by a blank
JoinMessages_no_comma(messages) ==
    Returned(PyStr(JoinStrings([i \in 1..Len(messages) |-> messages[i].v], " ")))

\* ", ".join(messages)
JoinMessages(messages) ==
    Returned(PyStr(JoinStrings([i \in 1..Len(messages) |-> messages[i].v], ", ")))

\* the loop over the fields of the 'errors' mapping, per being the messages
\* of each field
ErrorsMessages(per) ==
    IF AnyRaised(per) THEN FirstRaised(per)
    ELSE JoinMessages(ConcatLists([i \in 1..Len(per) |-> per[i].val]))

\* the else branch of _parse_error_message: payload = error_payload['errors']
ParseErrors(payload) ==
    IF payload.k = "list" THEN Returned(payload)
    ELSE IF ~Iterable(payload) THEN Raised("TypeError")
    ELSE IF payload.k = "str"
    THEN (IF payload.v = "" THEN Returned(PyStr("")) ELSE Raised("TypeError"))
    ELSE ErrorsMessages([i \in 1..Len(payload.v) |->
                            FieldMessages(payload.v[i][1], payload.v[i][2])])

_parse_error_message(error_payload) ==
    CASE error_payload.k = "str" -> Returned(error_payload)
      [] error_payload.k = "dict" ->
           IF HasKey(error_payload, "error") THEN Returned(GetItem(error_payload, "error"))
           ELSE IF HasKey(error_payload, "message")
           THEN Returned(GetItem(error_payload, "message"))
           ELSE IF ~HasKey(error_payload, "errors") THEN Raised("KeyError")
           ELSE ParseErrors(GetItem(error_payload, "errors"))
      [] OTHER -> Returned(PyNone)

\* "[%s] %s" % (code, parsed)
MessageOf(code, parsed) ==
    IF parsed.exc # "" THEN parsed
    ELSE Returned(PyStr("[" \o ToString(code) \o "] " \o Format(parsed.val)))

\* ClientError.error_message
error_message(code, error_payload) == MessageOf(code, _parse_error_message(error_payload))

\* exceptions.CODES
CODES == [c \in {400, 401, 403, 404} |->
            CASE c = 400 -> "BadRequest"
              [] c = 401 -> "Unauthorized"
              [] c = 403 -> "Forbidden"
              [] OTHER -> "NotFound"]

\* An exception object: its class, its code (0 when the class has none) and
\* its message.
Exception(type, code, message) == [type |-> type, code |-> code, message |-> message]

NoException == Exception("", 0, "")

\* ClientError.__init__ and its subclasses: the exception object, or the
\* exception raised while the message is built
Construct(cls, code, msg) ==
    IF msg.exc # "" THEN Exception(msg.exc, 0, "")
    ELSE Exception(cls, code, msg.val.v)

\* exceptions.get(code, resp_data): the exception that the raise statement
\* delivers
get(code, resp_data) ==
    Construct(IF code \in DOMAIN CODES THEN CODES[code] ELSE "ClientError",
              code, error_message(code, resp_data))

ClientErrorTypes == {"ClientError", "BadRequest", "Unauthorized", "Forbidden", "NotFound"}

(***************************************************************************)
(* State                                                                   *)
(***************************************************************************)
VARIABLES
    \* --- AppOpticsConnection._mexe ---
    pc,          \* position of the _mexe call: "idle", "running", "returned", "raised"
    args,        \* the arguments of the call: path, method, query_props
    conn,        \* the local conn: id of the current connection, 0 before any
    open,        \* ids of the connections that were set up and not closed
    nconn,       \* number of connections set up so far
    headers,     \* the local headers: the set of header names
    backoff,     \* the local backoff
    resp,        \* the response of the last attempt
    resp_data,   \* the value the call returned
    error,       \* the exception the call raised
    sleeps,      \* arguments of the time.sleep calls of this _mexe call, in order
    sent,        \* arguments of the conn.request calls of this _mexe call, in order
    signal,      \* what the transport did in the last attempt
    nserver,     \* number of responses with status >= 500 in this _mexe call
    ncalls,      \* number of _mexe calls started
    \* --- AppOpticsConnection._get_paginated_results ---
    pg_pc,       \* position of the walk: "idle", "request", "page", "done", "raised"
    query_props, \* the keyword arguments of the current (innermost) generator
    pg_resp,     \* resp: the envelope of the current page
    results,     \* results: the parsed entities of the current page
    pg_idx,      \* number of entities of the current page yielded so far
    yielded,     \* every entity handed to the consumer, in order
    received,    \* every entity the server sent in a page, in order
    pg_requests, \* the query_props of every page request, in order
    srv_honest,  \* whether the server pages a collection of srv_total entities
    srv_total,   \* the number of entities the server holds
    srv_length,  \* the page size of the server when the request names none
    nwalks,      \* number of walks started
    demand,      \* number of next() calls the consumer made on the generator
    \* --- Aggregator ---
    measurements,        \* self.measurements
    tagged_measurements, \* self.tagged_measurements
    measure_time,        \* self.measure_time
    period,              \* self.period
    now,                 \* int(time.time())
    floor_result,        \* what the last floor_measure_time call returned
    floor_args,          \* measure_time, period and clock at that call
    added,               \* values passed to add since the last clear, per name
    added_tagged,        \* values passed to add_tagged since the last clear, per name
    nadds,               \* number of add / add_tagged calls so far
    posts,               \* payloads the aggregator posted, with the server's answer
    agg_error,           \* whether the last submit() raised
    source,              \* self.source
    agg_tags,            \* self.tags of the Aggregator
    agg_op,              \* the last operation called on the Aggregator
    pending,             \* the add calls (by number) folded into self.measurements
    pending_tagged,      \* the add_tagged calls folded into self.tagged_measurements
    accepted,            \* the calls contained in a batch the server accepted
    twice,               \* the calls contained in more than one accepted batch
    built,               \* the last payload built by to_payload / to_md_payload
    \* --- AppOpticsConnection tags ---
    tags,        \* self.tags of the connection
    measurement, \* what the last create_tagged_payload call returned
    tp_args,     \* the keyword arguments of that call
    tp_top,      \* self.tags when that call was made
    submitted,   \* the outcome of the last submit / submit_measurement call
    \* --- exceptions.get ---
    error_code,    \* the status code passed to exceptions.get
    error_payload, \* the decoded body passed to exceptions.get
    client_error,  \* the exception object built, or the exception raised meanwhile
    \* --- get_tagged, get_measurements, get_composite, get_composite_tagged ---
    q_op,        \* the method called last
    q_args,      \* its keyword arguments
    q_error,     \* the message of the exception it raised, "" when none
    q_mexe       \* the arguments of the _mexe call it made, NoCall when none

mexe_vars == <<pc, args, conn, open, nconn, headers, backoff, resp, resp_data,
               error, sleeps, sent, signal, nserver, ncalls>>

page_vars == <<pg_pc, query_props, pg_resp, results, pg_idx, yielded, received,
               pg_requests, srv_honest, srv_total, srv_length, nwalks, demand>>

agg_vars == <<measurements, tagged_measurements, measure_time, period, now,
              floor_result, floor_args, added, added_tagged, nadds, posts, agg_error,
              source, agg_tags, agg_op, pending, pending_tagged, accepted, twice, built>>

tag_vars == <<tags, measurement, tp_args, tp_top, submitted>>

exc_vars == <<error_code, error_payload, client_error>>

query_vars == <<q_op, q_args, q_error, q_mexe>>

vars == <<pc, args, conn, open, nconn, headers, backoff, resp, resp_data,
          error, sleeps, sent, signal, nserver, ncalls,
          pg_pc, query_props, pg_resp, results, pg_idx, yielded, received,
          pg_requests, srv_honest, srv_total, srv_length, nwalks, demand,
          measurements, tagged_measurements, measure_time, period, now,
          floor_result, floor_args, added, added_tagged, nadds, posts, agg_error,
          source, agg_tags, agg_op, pending, pending_tagged, accepted, twice, built,
          tags, measurement, tp_args, tp_top, submitted,
          error_code, error_payload, client_error,
          q_op, q_args, q_error, q_mexe>>

(***************************************************************************)
(* Bounds                                                                  *)
(***************************************************************************)
\* attempts (conn.request calls) per _mexe call
MaxAttempts == 3
\* _mexe calls per behaviour
MaxCalls == 2

(***************************************************************************)
(* Transport: the responses a server may give                              *)
(***************************************************************************)
BASE_PATH == "/v1/"

Statuses == {200, 400, 401, 403, 404, 422, 500, 503}

\* raw bodies with their content type; json bodies are well-formed
Bodies == <<
    [body |-> "", content_type |-> "application/json"],
    [body |-> "{\"name\": \"cpu\"}", content_type |-> "application/json"],
    [body |-> "{\"error\": \"rate limit\"}", content_type |-> "application/json"],
    [body |-> "{\"errors\": {\"params\": {\"name\": [\"is not present\"]}}}",
     content_type |-> "application/json"],
    [body |-> "{}", content_type |-> "application/json"],
    [body |-> "not found", content_type |-> "text/plain"] >>

\* json.loads on the bodies above
json_loads(text) ==
    CASE text = "{\"name\": \"cpu\"}" -> PyDict(<< <<"name", PyStr("cpu")>> >>)
      [] text = "{\"error\": \"rate limit\"}" -> PyDict(<< <<"error", PyStr("rate limit")>> >>)
      [] text = "{\"errors\": {\"params\": {\"name\": [\"is not present\"]}}}" ->
           PyDict(<< <<"errors", PyDict(<< <<"params",
                      PyDict(<< <<"name", PyList(<<PyStr("is not present")>>)>> >>)>> >>)>> >>)
      [] text = "{}" -> PyDict(<<>>)

Response(status, b) == [status |-> status, body |-> b.body, content_type |-> b.content_type]

NoResponse == [status |-> 0, body |-> "", content_type |-> ""]

\* _decode_body: None for an empty body, the parsed value for json, else the text
_decode_body(r) ==
    IF r.body = "" THEN PyNone
    ELSE IF r.content_type = "application/json" THEN json_loads(r.body)
    ELSE PyStr(r.body)

(***************************************************************************)
(* AppOpticsConnection._make_request: what conn.request is called with     *)
(***************************************************************************)
\* the calls of _mexe that the model makes
Calls == <<
    [path |-> "metrics", method |-> "GET", query_props |-> PyDict(<<>>)],
    [path |-> "metrics", method |-> "GET",
     query_props |-> PyDict(<< <<"offset", PyInt(5)>>, <<"names", PyList(<<PyStr("a"), PyStr("b")>>)>> >>)],
    [path |-> "measurements", method |-> "POST",
     query_props |-> PyDict(<< <<"name", PyStr("cpu")>> >>)],
    [path |-> "metrics/cpu", method |-> "DELETE", query_props |-> PyDict(<<>>)] >>

NoCall == [path |-> "", method |-> "", query_props |-> PyDict(<<>>)]

RECURSIVE ParamsList(_)
\* _url_encode_params: the (key, value) list handed to urlencode
ParamsList(kvs) ==
    IF Len(kvs) = 0 THEN <<>>
    ELSE LET key == kvs[1][1]
             val == kvs[1][2]
         IN  (IF val.k = "list"
              THEN [i \in 1..Len(val.v) |-> <<key \o "[]", val.v[i]>>]
              ELSE << <<key, val>> >>) \o ParamsList(Tail(kvs))

\* urlencode of a (key, value) list; the keys and values of the model need
\* no percent-escaping except the brackets of a list key
Quote(s) ==
    IF Len(s) > 2 /\ SubSeq(s, Len(s) - 1, Len(s)) = "[]"
    THEN SubSeq(s, 1, Len(s) - 2) \o "%5B%5D"
    ELSE s

urlencode(params_list) ==
    JoinStrings([i \in 1..Len(params_list) |->
                    Quote(params_list[i][1]) \o "=" \o Format(params_list[i][2])], "&")

_url_encode_params(params) == urlencode(ParamsList(params.v))

\* json.dumps(x): the JSON text of x, kept as the value it encodes
json_dumps(x) == [json |-> x]

NoBody == [json |-> PyNone]

\* variant: only POST carries a body
HasBody_post_only(a) == Truthy(a.query_props) /\ a.method \in {"POST"}

HasBody(a) == Truthy(a.query_props) /\ a.method \in {"POST", "DELETE", "PUT"}

\* the request _make_request sends for the call arguments a with headers h
Request(a, h) ==
    [method |-> a.method,
     uri |-> IF Truthy(a.query_props) /\ ~HasBody(a)
             THEN BASE_PATH \o a.path \o "?" \o _url_encode_params(a.query_props)
             ELSE BASE_PATH \o a.path,
     body |-> IF HasBody(a) THEN json_dumps(a.query_props) ELSE NoBody,
     headers |-> IF HasBody(a) THEN h \cup {"Content-Type"} ELSE h]

\* _set_headers
_set_headers == {"Authorization", "User-Agent"}

\* self.backoff_logic, the default of __init__
backoff_logic(b) == b * 2

(***************************************************************************)
(* AppOpticsConnection._process_response and _mexe                         *)
(***************************************************************************)
ResponseNotReady == Exception("ResponseNotReady", 0, "")

\* The outcome of _process_response(resp, backoff): the exception raised (if
\* any), the returned triple, and the time.sleep calls made.  read_fails says
\* whether the transport raises ResponseNotReady while the body is read.
ProcessResult(exc, data, success, b, slept) ==
    [exc |-> exc, resp_data |-> data, success |-> success, backoff |-> b, slept |-> slept]

\* variant: sleeps for the current delay and grows it afterwards
_process_response_sleep_first(r, b, read_fails) ==
    IF r.status < 500
    THEN IF read_fails THEN ProcessResult(ResponseNotReady, PyNone, FALSE, b, <<>>)
         ELSE IF r.status >= 400
         THEN ProcessResult(get(r.status, _decode_body(r)), PyNone, FALSE, b, <<>>)
         ELSE ProcessResult(NoException, _decode_body(r), TRUE, b, <<>>)
    ELSE ProcessResult(NoException, PyNone, FALSE, backoff_logic(b), <<b>>)

\* variant: status 500 itself is not taken for a server error
_process_response_500_ok(r, b, read_fails) ==
    IF r.status <= 500
    THEN IF read_fails THEN ProcessResult(ResponseNotReady, PyNone, FALSE, b, <<>>)
         ELSE IF r.status >= 400 /\ r.status < 500
         THEN ProcessResult(get(r.status, _decode_body(r)), PyNone, FALSE, b, <<>>)
         ELSE ProcessResult(NoException, _decode_body(r), TRUE, b, <<>>)
    ELSE ProcessResult(NoException, PyNone, FALSE, backoff_logic(b), <<backoff_logic(b)>>)

_process_response(r, b, read_fails) ==
    IF r.status < 500
    THEN IF read_fails THEN ProcessResult(ResponseNotReady, PyNone, FALSE, b, <<>>)
         ELSE IF r.status >= 400
         THEN ProcessResult(get(r.status, _decode_body(r)), PyNone, FALSE, b, <<>>)
         ELSE ProcessResult(NoException, _decode_body(r), TRUE, b, <<>>)
    ELSE ProcessResult(NoException, PyNone, FALSE, backoff_logic(b), <<backoff_logic(b)>>)

\* _setup_connection: a new connection
_setup_connection == nconn + 1

\* _mexe up to the loop: a connection, the headers, backoff = 1
MexeCall(a) ==
    /\ pc \in {"idle", "returned", "raised"}
    /\ ncalls < MaxCalls
    /\ ncalls' = ncalls + 1
    /\ args' = a
    /\ conn' = _setup_connection
    /\ nconn' = nconn + 1
    /\ open' = open \cup {_setup_connection}
    /\ headers' = _set_headers
    /\ backoff' = 1
    /\ resp_data' = PyNone
    /\ resp' = NoResponse
    /\ error' = NoException
    /\ sleeps' = <<>>
    /\ sent' = <<>>
    /\ signal' = "none"
    /\ nserver' = 0
    /\ pc' = "running"

\* One iteration of the loop of _mexe in which _make_request returned the
\* response r: _process_response, the except clause, and, when the loop ends,
\* conn.close() and the return.
Iteration(r, read_fails) ==
    LET req == Request(args, headers)
        out == _process_response(r, backoff, read_fails)
    IN  /\ pc = "running"
        /\ Len(sent) < MaxAttempts
        /\ sent' = Append(sent, req)
        /\ headers' = req.headers
        /\ resp' = r
        /\ sleeps' = sleeps \o out.slept
        /\ signal' = IF read_fails THEN "not_ready_read" ELSE "response"
        /\ nserver' = IF r.status >= 500 THEN nserver + 1 ELSE nserver
        /\ UNCHANGED <<args, ncalls>>
        /\ IF out.exc = ResponseNotReady
           THEN \* except http_client.ResponseNotReady
                /\ open' = (open \ {conn}) \cup {_setup_connection}
                /\ conn' = _setup_connection
                /\ nconn' = nconn + 1
                /\ UNCHANGED <<backoff, resp_data, error, pc>>
           ELSE IF out.exc # NoException
           THEN \* the exception leaves _mexe
                /\ error' = out.exc
                /\ pc' = "raised"
                /\ UNCHANGED <<conn, open, nconn, backoff, resp_data>>
           ELSE /\ backoff' = out.backoff
                /\ resp_data' = out.resp_data
                /\ UNCHANGED <<conn, nconn, error>>
                /\ IF out.success
                   THEN open' = open \ {conn} /\ pc' = "returned"
                   ELSE UNCHANGED <<open, pc>>

\* the server answers with a status below 400
MexeSuccess ==
    \E s \in Statuses, i \in DOMAIN Bodies :
        s < 400 /\ Iteration(Response(s, Bodies[i]), FALSE)

\* the server answers with a 4xx status
MexeClientError ==
    \E s \in Statuses, i \in DOMAIN Bodies :
        s >= 400 /\ s < 500 /\ Iteration(Response(s, Bodies[i]), FALSE)

\* the server answers with a 5xx status
MexeServerError ==
    \E s \in Statuses, i \in DOMAIN Bodies :
        s >= 500 /\ Iteration(Response(s, Bodies[i]), FALSE)

\* the transport raises ResponseNotReady while the response is processed
\* (resp.read() in _decode_body, reached for a status below 500)
MexeNotReadyInProcess ==
    \E s \in Statuses, i \in DOMAIN Bodies :
        s < 500 /\ Iteration(Response(s, Bodies[i]), TRUE)

\* the transport raises ResponseNotReady inside _make_request, from
\* conn.request (nothing was sent) or from conn.getresponse: the call is
\* outside the try block of _mexe
MexeNotReadyInRequest ==
    \E at \in {"request", "getresponse"} :
        LET req == Request(args, headers)
        IN  /\ pc = "running"
            /\ Len(sent) < MaxAttempts
            /\ sent' = IF at = "getresponse" THEN Append(sent, req) ELSE sent
            /\ headers' = req.headers
            /\ signal' = "not_ready_request"
            /\ error' = ResponseNotReady
            /\ pc' = "raised"
            /\ UNCHANGED <<args, ncalls, conn, open, nconn, backoff, resp, resp_data,
                           sleeps, nserver>>

(***************************************************************************)
(* AppOpticsConnection._get_paginated_results                              *)
(***************************************************************************)
\* pages requested per walk from a server that need not be consistent
MaxRequests == 3
\* walks per behaviour
MaxWalks == 1
\* largest collection of the paging server
MaxTotal == 12
\* largest page size
MaxLength == 5

\* Metric.from_dict(connection, data): a Gauge for type "gauge" or
\* "composite", else a Metric, with the fields of the mapping
from_dict(data) ==
    [k |-> IF Get(data, "type", PyNone).v \in {"gauge", "composite"} THEN "Gauge" ELSE "Metric",
     v |-> [name |-> GetItem(data, "name"),
            period |-> GetItem(data, "period"),
            attributes |-> GetItem(data, "attributes"),
            description |-> Get(data, "description", PyNone)]]

\* _parse(resp, name, cls)
_parse(r, name) ==
    IF HasKey(r, name)
    THEN LET ms == GetItem(r, name).v
         IN  [i \in 1..Len(ms) |-> from_dict(ms[i])]
    ELSE [i \in 1..Len(r.v) |-> PyStr(r.v[i][1])]

\* entities number o .. o+n-1 of the server, as the mappings it sends
ServerEntities(o, n) ==
    [i \in 1..n |-> PyDict(<< <<"name", PyInt(o + i - 1)>>, <<"type", PyStr("gauge")>>,
                              <<"period", PyInt(60)>>, <<"attributes", PyDict(<<>>)>> >>)]

Max(a, b) == IF a > b THEN a ELSE b
Min(a, b) == IF a < b THEN a ELSE b

Query(q_offset, q_length, q_total) ==
    PyDict(<< <<"offset", PyInt(q_offset)>>, <<"length", PyInt(q_length)>>,
              <<"total", PyInt(q_total)>> >>)

\* the envelopes with which a server holding T entities may answer a request
\* for the page (o, L): the entities o .. min(o+L, T)-1, total T, and as
\* length either the requested page size or, when positive, the number sent
PagingAnswers(T, o, L) ==
    LET n == Max(0, Min(o + L, T) - o)
    IN  { PyDict(<< <<"metrics", PyList(ServerEntities(o, n))>>,
                    <<"query", Query(o, len, T)>> >>) : len \in {L} \cup ({n} \ {0}) }

\* the envelopes of a server that need not be consistent: two entities or none,
\* any length and total, each of which may be absent, and an offset that is
\* the requested one or the next
AnyAnswers(o) ==
    { PyDict(<< <<"metrics", PyList(ServerEntities(o, n))>>,
                <<"query", PyDict(SelectSeq(<< <<"offset", PyInt(off)>>,
                                               <<"length", PyInt(len)>>,
                                               <<"total", PyInt(tot)>> >>,
                                  LAMBDA kv : kv[2].v >= 0))>> >>) :
        n \in {0, 2}, len \in {-1, 0, 1, 2}, tot \in {-1, 0, MaxTotal}, off \in {o, o + 1} }

\* list_all_metrics(**query_props): the generator is created, nothing runs
ListAll(q, honest, T, L) ==
    /\ pg_pc \in {"idle", "done", "raised"}
    /\ nwalks < MaxWalks
    /\ nwalks' = nwalks + 1
    /\ query_props' = q
    /\ srv_honest' = honest
    /\ srv_total' = T
    /\ srv_length' = L
    /\ pg_resp' = PyDict(<<>>)
    /\ results' = <<>>
    /\ pg_idx' = 0
    /\ yielded' = <<>>
    /\ received' = <<>>
    /\ pg_requests' = <<>>
    /\ demand' = 0
    /\ pg_pc' = "request"

\* variant: the body of the generator runs without being asked
GeneratorRuns_eager == TRUE

\* the body of a generator runs only inside a next() call of the consumer,
\* which ends when an entity is yielded
GeneratorRuns == demand > Len(yielded)

\* next(walk): the consumer asks for an entity
ConsumerNext ==
    /\ pg_pc \in {"request", "page"}
    /\ demand = Len(yielded)
    /\ demand' = demand + 1
    /\ UNCHANGED <<pg_pc, query_props, pg_resp, results, pg_idx, yielded, received,
                   pg_requests, srv_honest, srv_total, srv_length, nwalks>>

\* the page the request asks for
ReqOffset(q) == Get(q, "offset", PyInt(0)).v
ReqLength(q) == Get(q, "length", PyInt(srv_length)).v

\* resp = self._mexe(entity, query_props=query_props) returns, and
\* results = self._parse(resp, entity, klass)
PageRequest ==
    /\ pg_pc = "request"
    /\ GeneratorRuns
    /\ srv_honest \/ Len(pg_requests) < MaxRequests
    /\ \E r \in IF srv_honest
                THEN PagingAnswers(srv_total, ReqOffset(query_props), ReqLength(query_props))
                ELSE AnyAnswers(ReqOffset(query_props)) :
          /\ pg_resp' = r
          /\ results' = _parse(r, "metrics")
          /\ received' = received \o _parse(r, "metrics")
    /\ pg_requests' = Append(pg_requests, query_props)
    /\ pg_idx' = 0
    /\ pg_pc' = "page"
    /\ UNCHANGED <<query_props, yielded, srv_honest, srv_total, srv_length, nwalks, demand>>

\* self._mexe raises a client error: it leaves the generator
PageRequestRaises ==
    /\ pg_pc = "request"
    /\ GeneratorRuns
    /\ srv_honest \/ Len(pg_requests) < MaxRequests
    /\ pg_requests' = Append(pg_requests, query_props)
    /\ pg_pc' = "raised"
    /\ UNCHANGED <<query_props, pg_resp, results, pg_idx, yielded, received,
                   srv_honest, srv_total, srv_length, nwalks, demand>>

\* for result in results: yield result
PageYield ==
    /\ pg_pc = "page"
    /\ GeneratorRuns
    /\ pg_idx < Len(results)
    /\ yielded' = Append(yielded, results[pg_idx + 1])
    /\ pg_idx' = pg_idx + 1
    /\ UNCHANGED <<pg_pc, query_props, pg_resp, results, received, pg_requests,
                   srv_honest, srv_total, srv_length, nwalks, demand>>

\* variant: goes on while offset <= total
Continuation_le(r, q) ==
    LET length == Get(Get(r, "query", PyDict(<<>>)), "length", PyInt(0)).v
        offset == Get(q, "offset", PyInt(0)).v + length
        total == Get(Get(r, "query", PyDict(<<>>)), "total", PyInt(length)).v
    IN  [again |-> offset <= total /\ length > 0,
         query_props |-> SetItem(q, "offset", PyInt(offset))]

\* variant: without the length > 0 guard
Continuation_no_guard(r, q) ==
    LET length == Get(Get(r, "query", PyDict(<<>>)), "length", PyInt(0)).v
        offset == Get(q, "offset", PyInt(0)).v + length
        total == Get(Get(r, "query", PyDict(<<>>)), "total", PyInt(length)).v
    IN  [again |-> offset < total,
         query_props |-> SetItem(q, "offset", PyInt(offset))]

\* the decision taken after the last result of a page: whether to go on, and
\* the query_props of the next page
Continuation(r, q) ==
    LET length == Get(Get(r, "query", PyDict(<<>>)), "length", PyInt(0)).v
        offset == Get(q, "offset", PyInt(0)).v + length
        total == Get(Get(r, "query", PyDict(<<>>)), "total", PyInt(length)).v
    IN  [again |-> offset < total /\ length > 0,
         query_props |-> SetItem(q, "offset", PyInt(offset))]

\* the code after the loop over the results: recurse or stop
PageEnd ==
    /\ pg_pc = "page"
    /\ GeneratorRuns
    /\ pg_idx = Len(results)
    /\ LET c == Continuation(pg_resp, query_props)
       IN  IF c.again
           THEN pg_pc' = "request" /\ query_props' = c.query_props
           ELSE pg_pc' = "done" /\ UNCHANGED query_props
    /\ UNCHANGED <<pg_resp, results, pg_idx, yielded, received, pg_requests,
                   srv_honest, srv_total, srv_length, nwalks, demand>>

\* the keyword arguments list_all_metrics is called with
WalkArgs(L) ==
    { PyDict(<<>>),
      PyDict(<< <<"length", PyInt(L)>> >>),
      PyDict(<< <<"length", PyInt(L)>>, <<"offset", PyInt(0)>> >>),
      PyDict(<< <<"length", PyInt(L)>>, <<"offset", PyInt(2)>> >>) }

(***************************************************************************)
(* Aggregator                                                              *)
(***************************************************************************)
\* add / add_tagged calls per behaviour
MaxAdds == 3
\* largest clock value
MaxNow == 7

Names == {"a", "b"}
Values == {-2, 0, 3}

\* the summary of a first value
Summary(value) == [count |-> 1, sum |-> value, min |-> value, max |-> value]

\* variant: the minimum is compared with the maximum
Accumulate_min_vs_max(bucket, name, value) ==
    IF ~HasKey(bucket, name)
    THEN SetItem(bucket, name, Summary(value))
    ELSE LET m == GetItem(bucket, name)
         IN  SetItem(bucket, name,
                 [count |-> m.count + 1,
                  sum |-> m.sum + value,
                  min |-> IF value < m.max THEN value ELSE m.min,
                  max |-> IF value > m.max THEN value ELSE m.max])

\* variant: the sum is assigned instead of increased
Accumulate_sum_assigned(bucket, name, value) ==
    IF ~HasKey(bucket, name)
    THEN SetItem(bucket, name, Summary(value))
    ELSE LET m == GetItem(bucket, name)
         IN  SetItem(bucket, name,
                 [count |-> m.count + 1,
                  sum |-> value,
                  min |-> IF value < m.min THEN value ELSE m.min,
                  max |-> IF value > m.max THEN value ELSE m.max])

\* the bucket after add(name, value) / add_tagged(name, value)
Accumulate(bucket, name, value) ==
    IF ~HasKey(bucket, name)
    THEN SetItem(bucket, name, Summary(value))
    ELSE LET m == GetItem(bucket, name)
         IN  SetItem(bucket, name,
                 [count |-> m.count + 1,
                  sum |-> m.sum + value,
                  min |-> IF value < m.min THEN value ELSE m.min,
                  max |-> IF value > m.max THEN value ELSE m.max])

add(name, value) ==
    /\ nadds < MaxAdds
    /\ measurements' = Accumulate(measurements, name, value)
    /\ added' = [added EXCEPT ![name] = Append(@, value)]
    /\ nadds' = nadds + 1
    /\ pending' = pending \cup {nadds + 1}
    /\ agg_op' = "add"
    /\ UNCHANGED <<tagged_measurements, measure_time, period, now, floor_result,
                   floor_args, added_tagged, posts, agg_error, source, agg_tags,
                   pending_tagged, accepted, twice, built>>

add_tagged(name, value) ==
    /\ nadds < MaxAdds
    /\ tagged_measurements' = Accumulate(tagged_measurements, name, value)
    /\ added_tagged' = [added_tagged EXCEPT ![name] = Append(@, value)]
    /\ nadds' = nadds + 1
    /\ pending_tagged' = pending_tagged \cup {nadds + 1}
    /\ agg_op' = "add_tagged"
    /\ UNCHANGED <<measurements, measure_time, period, now, floor_result,
                   floor_args, added, posts, agg_error, source, agg_tags,
                   pending, accepted, twice, built>>

\* floor_measure_time for the given fields and clock
floor_measure_time(p, mt, clock) ==
    IF Truthy(p)
    THEN LET t == IF Truthy(mt) THEN mt.v ELSE clock
         IN  PyInt(t - (t % p.v))
    ELSE IF Truthy(mt) THEN mt
    ELSE PyNone

\* variant: only the first metric of the bucket is serialised
PayloadBody_first_only(bucket) ==
    [i \in 1..(IF Len(bucket.v) = 0 THEN 0 ELSE 1) |->
        [name |-> bucket.v[i][1], count |-> bucket.v[i][2].count, sum |-> bucket.v[i][2].sum,
         min |-> bucket.v[i][2].min, max |-> bucket.v[i][2].max]]

\* the body of to_payload / to_md_payload for a bucket
PayloadBody(bucket) ==
    [i \in 1..Len(bucket.v) |->
        [name |-> bucket.v[i][1], count |-> bucket.v[i][2].count, sum |-> bucket.v[i][2].sum,
         min |-> bucket.v[i][2].min, max |-> bucket.v[i][2].max]]

\* a payload: a field that the code leaves out of the dict is None here
\* (a field that is present is never None, the code adds truthy values only)
Payload(bucket, src, tgs, t) ==
    [measurements |-> PayloadBody(bucket),
     source |-> IF Truthy(src) THEN src ELSE PyNone,
     tags |-> IF Truthy(tgs) THEN tgs ELSE PyNone,
     time |-> IF Truthy(t) THEN t ELSE PyNone]

\* to_payload() at clock value clock
to_payload(bucket, src, p, mt, clock) ==
    Payload(bucket, src, PyNone, floor_measure_time(p, mt, clock))

\* to_md_payload() at clock value clock
to_md_payload(bucket, tgs, p, mt, clock) ==
    Payload(bucket, PyNone, tgs, floor_measure_time(p, mt, clock))

NoNames == [n \in Names |-> <<>>]

\* variant: the cached measure time survives
clear_keeps_time ==
    /\ measurements' = PyDict(<<>>)
    /\ tagged_measurements' = PyDict(<<>>)
    /\ measure_time' = measure_time
    /\ added' = NoNames
    /\ added_tagged' = NoNames
    /\ pending' = {}
    /\ pending_tagged' = {}

\* clear()
clear ==
    /\ measurements' = PyDict(<<>>)
    /\ tagged_measurements' = PyDict(<<>>)
    /\ measure_time' = PyNone
    /\ added' = NoNames
    /\ added_tagged' = NoNames
    /\ pending' = {}
    /\ pending_tagged' = {}

AggClear ==
    /\ clear
    /\ agg_op' = "clear"
    /\ UNCHANGED <<period, now, floor_result, floor_args, nadds, posts, agg_error,
                   source, agg_tags, accepted, twice, built>>

\* the calls that an accepted batch delivers
Delivered(sent1, ok1, sent2, ok2) ==
    (IF sent1 /\ ok1 THEN pending ELSE {}) \cup (IF sent2 /\ ok2 THEN pending_tagged ELSE {})

\* variant: the buckets are cleared however submit() ends (try / finally)
AfterSubmit_finally(raised) == clear

\* the end of submit(): an exception of _mexe leaves the method, so that
\* self.clear() on its last line is not reached
AfterSubmit(raised) ==
    IF raised
    THEN UNCHANGED <<measurements, tagged_measurements, measure_time, added,
                     added_tagged, pending, pending_tagged>>
    ELSE clear

\* submit(): ok1 and ok2 say whether the server accepts the untagged and the
\* tagged batch (a client error leaves submit at once), dt is the time the
\* first _mexe call takes
submit(ok1, ok2, dt) ==
    LET sent1 == Truthy(measurements)
        first == IF sent1
                 THEN << [path |-> "measurements", method |-> "POST",
                          query_props |-> to_payload(measurements, source, period,
                                                     measure_time, now),
                          ok |-> ok1] >>
                 ELSE <<>>
        stop1 == sent1 /\ ~ok1
        clock == IF sent1 THEN now + dt ELSE now
        sent2 == ~stop1 /\ Truthy(tagged_measurements)
        second == IF sent2
                  THEN << [path |-> "measurements", method |-> "POST",
                           query_props |-> to_md_payload(tagged_measurements, agg_tags,
                                                         period, measure_time, clock),
                           ok |-> ok2] >>
                  ELSE <<>>
        stop2 == sent2 /\ ~ok2
    IN  /\ clock <= MaxNow
        /\ now' = clock
        /\ posts' = first \o second
        /\ agg_error' = (stop1 \/ stop2)
        /\ agg_op' = "submit"
        /\ accepted' = accepted \cup Delivered(sent1, ok1, sent2, ok2)
        /\ twice' = twice \cup (accepted \cap Delivered(sent1, ok1, sent2, ok2))
        /\ AfterSubmit(stop1 \/ stop2)
        /\ UNCHANGED <<period, floor_result, floor_args, nadds, source, agg_tags, built>>

\* get_measure_time()
get_measure_time ==
    LET mt == floor_measure_time(period, measure_time, now)
    IN  /\ measure_time' = IF Truthy(mt) THEN mt ELSE measure_time
        /\ floor_result' = mt
        /\ floor_args' = [period |-> period, measure_time |-> measure_time, now |-> now]
        /\ agg_op' = "get_measure_time"
        /\ UNCHANGED <<measurements, tagged_measurements, period, now, added,
                       added_tagged, nadds, posts, agg_error, source, agg_tags,
                       pending, pending_tagged, accepted, twice, built>>

\* a call of floor_measure_time()
FloorMeasureTime ==
    /\ floor_result' = floor_measure_time(period, measure_time, now)
    /\ floor_args' = [period |-> period, measure_time |-> measure_time, now |-> now]
    /\ agg_op' = "floor_measure_time"
    /\ UNCHANGED <<measurements, tagged_measurements, measure_time, period, now, added,
                   added_tagged, nadds, posts, agg_error, source, agg_tags,
                   pending, pending_tagged, accepted, twice, built>>

\* a call of to_payload() (md = FALSE) or to_md_payload() (md = TRUE)
BuildPayload(md) ==
    /\ built' = [md |-> md, period |-> period, measure_time |-> measure_time, now |-> now,
                 payload |-> IF md
                             THEN to_md_payload(tagged_measurements, agg_tags, period,
                                                measure_time, now)
                             ELSE to_payload(measurements, source, period,
                                             measure_time, now)]
    /\ agg_op' = IF md THEN "to_md_payload" ELSE "to_payload"
    /\ UNCHANGED <<measurements, tagged_measurements, measure_time, period, now,
                   floor_result, floor_args, added, added_tagged, nadds, posts,
                   agg_error, source, agg_tags, pending, pending_tagged, accepted, twice>>

\* the clock advances
Tick ==
    /\ now < MaxNow
    /\ now' = now + 1
    /\ UNCHANGED <<measurements, tagged_measurements, measure_time, period, floor_result,
                   floor_args, added, added_tagged, nadds, posts, agg_error, source,
                   agg_tags, agg_op, pending, pending_tagged, accepted, twice, built>>

(***************************************************************************)
(* AppOpticsConnection: tags and create_tagged_payload                     *)
(***************************************************************************)
RECURSIVE Update(_, _)
\* d.update(kvs), also dict(d, **kvs)
Update(d, kvs) ==
    IF Len(kvs) = 0 THEN d
    ELSE Update(SetItem(d, kvs[1][1], kvs[1][2]), Tail(kvs))

\* self.sanitize, the default sanitize_no_op
sanitize(metric_name) == metric_name

\* the tag sets of the model
TagSets == {
    PyDict(<<>>),
    PyDict(<< <<"a", PyStr("1")>> >>),
    PyDict(<< <<"b", PyStr("3")>> >>),
    PyDict(<< <<"a", PyStr("1")>>, <<"b", PyStr("2")>> >>),
    PyDict(<< <<"b", PyStr("3")>>, <<"c", PyStr("4")>> >>) }

set_tags(d) ==
    /\ tags' = d
    /\ UNCHANGED <<measurement, tp_args, tp_top, submitted>>

add_tags(d) ==
    /\ tags' = Update(tags, d.v)
    /\ UNCHANGED <<measurement, tp_args, tp_top, submitted>>

\* variant: the top-level tags are laid over the caller's
TaggedPayload_top_wins(top, name, value, qp) ==
    LET m0 == PyDict(<< <<"name", PyStr(sanitize(name))>>, <<"value", PyInt(value)>> >>)
        inherit_tags == Get(qp, "inherit_tags", PyBool(FALSE))
        qp1 == IF HasKey(qp, "tags") THEN DelItem(qp, "inherit_tags") ELSE qp
        merge == HasKey(qp, "tags") /\ Truthy(inherit_tags)
        qp2 == IF merge THEN DelItem(qp1, "tags") ELSE qp1
        m1 == IF merge
              THEN SetItem(m0, "tags", Update(GetItem(qp, "tags"), top.v))
              ELSE IF ~HasKey(qp, "tags") /\ Truthy(top)
              THEN SetItem(m0, "tags", top)
              ELSE m0
    IN  Update(m1, qp2.v)

\* the measurement create_tagged_payload(name, value, **qp) builds when
\* self.tags is top
TaggedPayload(top, name, value, qp) ==
    LET m0 == PyDict(<< <<"name", PyStr(sanitize(name))>>, <<"value", PyInt(value)>> >>)
        inherit_tags == Get(qp, "inherit_tags", PyBool(FALSE))
        qp1 == IF HasKey(qp, "tags") THEN DelItem(qp, "inherit_tags") ELSE qp
        merge == HasKey(qp, "tags") /\ Truthy(inherit_tags)
        qp2 == IF merge THEN DelItem(qp1, "tags") ELSE qp1
        m1 == IF merge
              THEN SetItem(m0, "tags", Update(top, GetItem(qp, "tags").v))
              ELSE IF ~HasKey(qp, "tags") /\ Truthy(top)
              THEN SetItem(m0, "tags", top)
              ELSE m0
    IN  Update(m1, qp2.v)

\* the keyword arguments create_tagged_payload is called with
PayloadArgs ==
    { PyDict(base \o t \o i) :
        base \in { <<>>, << <<"time", PyInt(5)>> >> },
        t \in { <<>> } \cup { << <<"tags", d>> >> : d \in TagSets },
        i \in { <<>>, << <<"inherit_tags", PyBool(TRUE)>> >>,
                << <<"inherit_tags", PyBool(FALSE)>> >> } }

create_tagged_payload(name, value, qp) ==
    /\ measurement' = TaggedPayload(tags, name, value, qp)
    /\ tp_args' = qp
    /\ tp_top' = tags
    /\ UNCHANGED <<tags, submitted>>

\* no submit call was made yet
NoSubmit == [op |-> "", error |-> "", mexe |-> NoCall]

\* submit_tagged(name, value, **qp): the _mexe call it makes when self.tags is top
submit_tagged(top, name, value, qp) ==
    [path |-> "measurements", method |-> "POST",
     query_props |-> PyDict(<< <<"measurements",
                                 PyList(<<TaggedPayload(top, name, value, qp)>>)>> >>)]

\* the test of submit: 'tags' in query_props or self.get_tags()
NeedsNoTag(top, qp) ==
    HasKey(qp, "tags") \/ Truthy(top)

\* submit(name, value, **qp), and submit_measurement, its alias (op names
\* the one called)
connection_submit(op, name, value, qp) ==
    LET query_props1 == DelItem(qp, "type")
    IN  /\ IF NeedsNoTag(tags, query_props1)
           THEN /\ submitted' = [op |-> op, error |-> "",
                                 mexe |-> submit_tagged(tags, name, value, query_props1)]
                /\ measurement' = TaggedPayload(tags, name, value, query_props1)
                /\ tp_args' = query_props1
                /\ tp_top' = tags
           ELSE /\ submitted' = [op |-> op, error |-> "At least one tag is needed.",
                                 mexe |-> NoCall]
                /\ UNCHANGED <<measurement, tp_args, tp_top>>
        /\ UNCHANGED tags

\* the keyword arguments submit is called with
SubmitArgs ==
    PayloadArgs \cup
    { PyDict(<< <<"type", PyStr("gauge")>> >> \o t) :
        t \in { <<>> } \cup { << <<"tags", d>> >> : d \in TagSets } }

(***************************************************************************)
(* Initial states and specifications                                       *)
(***************************************************************************)
\* AppOpticsConnection(...): no _mexe call was made; a is what the next call
\* of the caller passes
InitMexeCall(a) ==
    /\ pc = "idle"
    /\ args = a
    /\ conn = 0
    /\ open = {}
    /\ nconn = 0
    /\ headers = {}
    /\ backoff = 0
    /\ resp = NoResponse
    /\ resp_data = PyNone
    /\ error = NoException
    /\ sleeps = <<>>
    /\ sent = <<>>
    /\ signal = "none"
    /\ nserver = 0
    /\ ncalls = 0

InitMexeVars == InitMexeCall(NoCall)

InitPageVars ==
    /\ pg_pc = "idle"
    /\ query_props = PyDict(<<>>)
    /\ pg_resp = PyDict(<<>>)
    /\ results = <<>>
    /\ pg_idx = 0
    /\ yielded = <<>>
    /\ received = <<>>
    /\ pg_requests = <<>>
    /\ srv_honest = TRUE
    /\ srv_total = 0
    /\ srv_length = 1
    /\ nwalks = 0
    /\ demand = 0

NoFloorArgs == [period |-> PyNone, measure_time |-> PyNone, now |-> 0]

NoPayload == [md |-> FALSE, period |-> PyNone, measure_time |-> PyNone, now |-> 0,
              payload |-> Payload(PyDict(<<>>), PyNone, PyNone, PyNone)]

\* Aggregator(connection, source=src, tags=tgs, period=p, time=mt), the clock
\* showing clock
InitAggregator(src, tgs, p, mt, clock) ==
    /\ measurements = PyDict(<<>>)
    /\ tagged_measurements = PyDict(<<>>)
    /\ measure_time = mt
    /\ period = p
    /\ now = clock
    /\ floor_result = PyNone
    /\ floor_args = NoFloorArgs
    /\ added = NoNames
    /\ added_tagged = NoNames
    /\ nadds = 0
    /\ posts = <<>>
    /\ agg_error = FALSE
    /\ source = src
    /\ agg_tags = tgs
    /\ agg_op = "__init__"
    /\ pending = {}
    /\ pending_tagged = {}
    /\ accepted = {}
    /\ twice = {}
    /\ built = NoPayload

\* Aggregator(connection, period=p, time=mt), the clock showing clock
InitAggVars(p, mt, clock) == InitAggregator(PyNone, PyDict(<<>>), p, mt, clock)

\* AppOpticsConnection(api_key, tags=d)
InitTagVars(d) ==
    /\ tags = d
    /\ measurement = PyDict(<<>>)
    /\ tp_args = PyDict(<<>>)
    /\ tp_top = PyDict(<<>>)
    /\ submitted = NoSubmit

\* no query method was called yet
InitQueryVars ==
    /\ q_op = ""
    /\ q_args = PyDict(<<>>)
    /\ q_error = ""
    /\ q_mexe = NoCall

\* a response with this status and decoded body reaches _process_response
InitExcVars(code, payload) ==
    /\ error_code = code
    /\ error_payload = payload
    /\ client_error = NoException

\* --- _mexe ---
InitMexe ==
    /\ InitMexeVars
    /\ InitPageVars
    /\ InitAggVars(PyNone, PyNone, 0)
    /\ InitTagVars(PyDict(<<>>))
    /\ InitExcVars(0, PyNone)
    /\ InitQueryVars

NextMexe ==
    /\ \/ \E i \in DOMAIN Calls : MexeCall(Calls[i])
       \/ MexeSuccess
       \/ MexeClientError
       \/ MexeServerError
       \/ MexeNotReadyInProcess
       \/ MexeNotReadyInRequest
    /\ UNCHANGED <<page_vars, agg_vars, tag_vars, exc_vars, query_vars>>

SpecMexe == InitMexe /\ [][NextMexe]_vars

\* --- _get_paginated_results ---
InitPage == InitMexe

NextPage ==
    /\ \/ \E T \in 0..MaxTotal, L \in 1..MaxLength : \E q \in WalkArgs(L) :
             ListAll(q, TRUE, T, L)
       \/ \E L \in 1..2 : \E q \in WalkArgs(L) : ListAll(q, FALSE, 0, L)
       \/ ConsumerNext
       \/ PageRequest
       \/ PageRequestRaises
       \/ PageYield
       \/ PageEnd
    /\ UNCHANGED <<mexe_vars, agg_vars, tag_vars, exc_vars, query_vars>>

SpecPage == InitPage /\ [][NextPage]_vars

\* --- Aggregator: accumulation and submission ---
InitAgg ==
    /\ InitMexeVars
    /\ InitPageVars
    /\ InitAggVars(PyInt(2), PyNone, MaxNow - 1)
    /\ InitTagVars(PyDict(<<>>))
    /\ InitExcVars(0, PyNone)
    /\ InitQueryVars

NextAgg ==
    /\ \/ \E n \in Names, v \in Values : add(n, v)
       \/ \E n \in Names, v \in Values : add_tagged(n, v)
       \/ AggClear
       \/ \E ok1 \in BOOLEAN, ok2 \in BOOLEAN, dt \in 0..1 : submit(ok1, ok2, dt)
    /\ UNCHANGED <<mexe_vars, page_vars, tag_vars, exc_vars, query_vars>>

SpecAgg == InitAgg /\ [][NextAgg]_vars

\* --- Aggregator: payloads and submission ---
Sources == {PyNone, PyStr("web")}
AggTagSets == {PyDict(<<>>), PyDict(<< <<"region", PyStr("us")>> >>)}
SubmitPeriods == {PyNone, PyInt(2)}
SubmitTimes == {PyNone, PyInt(5)}

InitSubmit ==
    /\ InitMexeVars
    /\ InitPageVars
    /\ \E src \in Sources, tgs \in AggTagSets, p \in SubmitPeriods, mt \in SubmitTimes :
          InitAggregator(src, tgs, p, mt, MaxNow - 2)
    /\ InitTagVars(PyDict(<<>>))
    /\ InitExcVars(0, PyNone)
    /\ InitQueryVars

NextSubmit ==
    /\ \/ \E n \in Names : add(n, 3)
       \/ \E n \in Names : add_tagged(n, 3)
       \/ AggClear
       \/ \E ok1 \in BOOLEAN, ok2 \in BOOLEAN, dt \in 0..1 : submit(ok1, ok2, dt)
    /\ UNCHANGED <<mexe_vars, page_vars, tag_vars, exc_vars, query_vars>>

SpecSubmit == InitSubmit /\ [][NextSubmit]_vars

\* --- Aggregator: measure time ---
Periods == {PyNone} \cup {PyInt(n) : n \in 1..3}
Times == {PyNone} \cup {PyInt(n) : n \in 0..MaxNow}

InitFloor ==
    /\ InitMexeVars
    /\ InitPageVars
    /\ \E p \in Periods, mt \in Times, clock \in 0..MaxNow : InitAggVars(p, mt, clock)
    /\ InitTagVars(PyDict(<<>>))
    /\ InitExcVars(0, PyNone)
    /\ InitQueryVars

NextFloor ==
    /\ \/ FloorMeasureTime
       \/ get_measure_time
       \/ Tick
       \/ AggClear
       \/ \E md \in BOOLEAN : BuildPayload(md)
    /\ UNCHANGED <<mexe_vars, page_vars, tag_vars, exc_vars, query_vars>>

SpecFloor == InitFloor /\ [][NextFloor]_vars

\* --- tags ---
InitTags ==
    /\ InitMexeVars
    /\ InitPageVars
    /\ InitAggVars(PyNone, PyNone, 0)
    /\ \E d \in TagSets : InitTagVars(d)
    /\ InitExcVars(0, PyNone)
    /\ InitQueryVars

NextTags ==
    /\ \/ \E d \in TagSets : set_tags(d)
       \/ \E d \in TagSets : add_tags(d)
       \/ \E qp \in PayloadArgs : create_tagged_payload("cpu", 20, qp)
    /\ UNCHANGED <<mexe_vars, page_vars, agg_vars, exc_vars, query_vars>>

SpecTags == InitTags /\ [][NextTags]_vars

\* --- AppOpticsConnection.submit, submit_measurement ---
\* a connection with any top-level tags; no measurement was submitted yet
InitSend == InitTags

NextSend ==
    /\ \/ \E d \in TagSets : set_tags(d)
       \/ \E d \in TagSets : add_tags(d)
       \/ \E op \in {"submit", "submit_measurement"}, qp \in SubmitArgs :
              connection_submit(op, "cpu", 20, qp)
    /\ UNCHANGED <<mexe_vars, page_vars, agg_vars, exc_vars, query_vars>>

SpecSend == InitSend /\ [][NextSend]_vars

\* --- get_tagged, get_measurements, get_composite, get_composite_tagged ---
\* what a method did: the message of the exception it raised, or the
\* arguments of its _mexe call
QueryRaised(msg) == [error |-> msg, mexe |-> NoCall]
QueryMexe(path, qp) ==
    [error |-> "", mexe |-> [path |-> path, method |-> "GET", query_props |-> qp]]

\* query_props with the default resolution
WithResolution(qp) ==
    IF ~HasKey(qp, "resolution") THEN SetItem(qp, "resolution", PyInt(1)) ELSE qp

_parse_tags_params(t) ==
    [i \in 1..Len(t.v) |-> <<"tags[" \o t.v[i][1] \o "]", t.v[i][2]>>]

\* query_props.pop('tags') and query_props.update(parsed_tags)
WithParsedTags(qp) ==
    IF HasKey(qp, "tags")
    THEN Update(DelItem(qp, "tags"), _parse_tags_params(GetItem(qp, "tags")))
    ELSE qp

\* variant: the conflicting time range is not checked
get_tagged_no_conflict_check(name, qp) ==
    IF ~HasKey(qp, "start_time") /\ ~HasKey(qp, "duration")
    THEN QueryRaised("You must provide 'start_time' or 'duration'")
    ELSE QueryMexe("measurements/" \o sanitize(name), WithParsedTags(WithResolution(qp)))

get_tagged(name, qp) ==
    IF ~HasKey(qp, "start_time") /\ ~HasKey(qp, "duration")
    THEN QueryRaised("You must provide 'start_time' or 'duration'")
    ELSE IF HasKey(qp, "start_time") /\ HasKey(qp, "end_time") /\ HasKey(qp, "duration")
    THEN QueryRaised("It is an error to set 'start_time', 'end_time' and 'duration'")
    ELSE QueryMexe("measurements/" \o sanitize(name), WithParsedTags(WithResolution(qp)))

get_measurements(name, qp) == get_tagged(name, qp)

get_composite_tagged(compose, qp) ==
    IF ~HasKey(qp, "start_time")
    THEN QueryRaised("You must provide a 'start_time'")
    ELSE QueryMexe("measurements", SetItem(WithResolution(qp), "compose", PyStr(compose)))

\* get_composite on a connection whose tag set is top
get_composite(top, compose, qp) ==
    IF Truthy(top) THEN get_composite_tagged(compose, qp)
    ELSE IF ~HasKey(qp, "start_time")
    THEN QueryRaised("You must provide a 'start_time'")
    ELSE QueryMexe("metrics", SetItem(WithResolution(qp), "compose", PyStr(compose)))

\* the keyword arguments of the model, and every selection of them
QueryKeys == <<
    <<"start_time", PyInt(100)>>, <<"end_time", PyInt(200)>>, <<"duration", PyInt(60)>>,
    <<"resolution", PyInt(60)>>, <<"tags", PyDict(<< <<"host", PyStr("a")>> >>)>> >>

RECURSIVE Selection(_, _)
Selection(kvs, keep) ==
    IF Len(kvs) = 0 THEN <<>>
    ELSE (IF kvs[1][1] \in keep THEN <<kvs[1]>> ELSE <<>>) \o Selection(Tail(kvs), keep)

QueryArgs ==
    {PyDict(Selection(QueryKeys, keep)) :
        keep \in SUBSET {QueryKeys[i][1] : i \in 1..Len(QueryKeys)}}

\* a call of one of the four methods with keyword arguments qp
CallQuery(op, qp) ==
    LET out == CASE op = "get_tagged" -> get_tagged("cpu", qp)
                 [] op = "get_measurements" -> get_measurements("cpu", qp)
                 [] op = "get_composite" -> get_composite(tags, "sum", qp)
                 [] OTHER -> get_composite_tagged("sum", qp)
    IN  /\ q_op' = op
        /\ q_args' = qp
        /\ q_error' = out.error
        /\ q_mexe' = out.mexe
        /\ UNCHANGED tag_vars

InitQuery ==
    /\ InitMexeVars
    /\ InitPageVars
    /\ InitAggVars(PyNone, PyNone, 0)
    /\ \E d \in TagSets : InitTagVars(d)
    /\ InitExcVars(0, PyNone)
    /\ InitQueryVars

NextQuery ==
    /\ \/ \E qp \in QueryArgs : CallQuery("get_tagged", qp)
       \/ \E qp \in QueryArgs : CallQuery("get_measurements", qp)
       \/ \E qp \in QueryArgs : CallQuery("get_composite", qp)
       \/ \E qp \in QueryArgs : CallQuery("get_composite_tagged", qp)
    /\ UNCHANGED <<mexe_vars, page_vars, agg_vars, exc_vars>>

SpecQuery == InitQuery /\ [][NextQuery]_vars

\* --- _make_request ---
Methods == {"GET", "POST", "PUT", "DELETE", "HEAD"}

Params == {
    PyDict(<<>>),
    PyDict(<< <<"name", PyStr("cpu")>> >>),
    PyDict(<< <<"offset", PyInt(5)>>, <<"names", PyList(<<PyStr("a"), PyStr("b")>>)>> >>),
    PyDict(<< <<"names", PyList(<<>>)>>, <<"length", PyInt(0)>> >>) }

\* the connection is built and _mexe is about to be called with a
InitRequest ==
    /\ \E mt \in Methods, qp \in Params :
          InitMexeCall([path |-> "metrics", method |-> mt, query_props |-> qp])
    /\ InitPageVars
    /\ InitAggVars(PyNone, PyNone, 0)
    /\ InitTagVars(PyDict(<<>>))
    /\ InitExcVars(0, PyNone)
    /\ InitQueryVars

NextRequest ==
    /\ \/ MexeCall(args)
       \/ \E st \in {200, 404, 503} : Iteration(Response(st, Bodies[1]), FALSE)
       \/ Iteration(Response(200, Bodies[1]), TRUE)
       \/ MexeNotReadyInRequest
    /\ UNCHANGED <<page_vars, agg_vars, tag_vars, exc_vars, query_vars>>

SpecRequest == InitRequest /\ [][NextRequest]_vars

\* --- exceptions.get ---
\* longest list of messages under one field
MaxMsgs == 2

Msgs == {"is not present", "is not a number"}
Fields == <<"params", "request">>
SubFields == <<"name", "start_time">>

\* the lists of at most n messages
MsgLists(n) == UNION {[1..k -> {PyStr(m) : m \in Msgs}] : k \in 0..n}

\* a string or a list of strings
Leaves == {PyStr(m) : m \in Msgs} \cup {PyList(xs) : xs \in MsgLists(MaxMsgs)}

\* a mapping from sub-field to leaf, with one or two sub-fields
Maps ==
    {PyDict(<< <<SubFields[i], v>> >>) : i \in 1..2, v \in Leaves}
  \cup {PyDict(<< <<SubFields[1], v>>, <<SubFields[2], w>> >>) : v \in Leaves, w \in Leaves}
  \cup {PyDict(<<>>)}

\* the payloads {"errors": {field: value, ...}} of the documented shapes
ErrorsPayloads ==
    {PyDict(<< <<"errors", PyDict(<< <<Fields[i], v>> >>)>> >>) :
        i \in 1..2, v \in Leaves \cup Maps}
  \cup {PyDict(<< <<"errors", PyDict(<< <<Fields[1], v>>, <<Fields[2], w>> >>)>> >>) :
        v \in Maps, w \in Leaves}

\* other decoded bodies of a 4xx response
OtherPayloads ==
    { PyNone, PyStr(""), PyStr("not found"), PyList(<<>>), PyList(<<PyStr("a")>>),
      PyDict(<<>>), PyDict(<< <<"name", PyStr("cpu")>> >>),
      PyDict(<< <<"error", PyStr("rate limit")>> >>),
      PyDict(<< <<"message", PyStr("gone")>> >>),
      PyDict(<< <<"errors", PyNone>> >>),
      PyDict(<< <<"errors", PyInt(5)>> >>),
      PyDict(<< <<"errors", PyStr("bad")>> >>),
      PyDict(<< <<"errors", PyList(<<PyStr("a"), PyStr("b")>>)>> >>),
      PyDict(<< <<"errors", PyDict(<< <<"params", PyInt(5)>> >>)>> >>),
      PyDict(<< <<"errors", PyDict(<< <<"params", PyDict(<< <<"name", PyInt(5)>> >>)>> >>)>> >>),
      PyDict(<< <<"errors", PyDict(<< <<"params", PyDict(<< <<"name", PyList(<<PyInt(5)>>)>> >>)>> >>)>> >>) }

ClientCodes == {400, 404, 422}

\* raise exceptions.get(resp.status, resp_data)
RaiseClientError ==
    /\ client_error = NoException
    /\ client_error' = get(error_code, error_payload)
    /\ UNCHANGED <<error_code, error_payload>>

InitErrors ==
    /\ InitMexeVars
    /\ InitPageVars
    /\ InitAggVars(PyNone, PyNone, 0)
    /\ InitTagVars(PyDict(<<>>))
    /\ \E code \in ClientCodes, payload \in ErrorsPayloads \cup OtherPayloads :
          InitExcVars(code, payload)
    /\ InitQueryVars

NextErrors ==
    /\ RaiseClientError
    /\ UNCHANGED <<mexe_vars, page_vars, agg_vars, tag_vars, query_vars>>

SpecErrors == InitErrors /\ [][NextErrors]_vars

C2_Class(status) ==
    CASE status = 400 -> "BadRequest"
      [] status = 401 -> "Unauthorized"
      [] status = 403 -> "Forbidden"
      [] status = 404 -> "NotFound"
      [] OTHER -> "ClientError"

\* C2: a response with status in 400..499 ends the _mexe call at once (no
\* sleep, no further request), and the error raised carries the status as
\* its code and has the class of that status.
C2_ClientErrorCarriesStatus ==
    (signal = "response" /\ resp.status >= 400 /\ resp.status < 500) =>
        /\ pc = "raised"
        /\ error.code = resp.status
        /\ error.type = C2_Class(resp.status)

\* C3: a response with status >= 500 never ends a _mexe call: the call goes
\* on without an error, a call that ended on a response ended on a status
\* below 500, and every request the call sent is the same request (method,
\* URI, body, headers), the one its arguments describe.
C3_ServerErrorsAreRetried ==
    /\ (signal = "response" /\ resp.status >= 500) =>
          (pc = "running" /\ error = NoException)
    /\ (pc \in {"returned", "raised"} /\ signal = "response") => resp.status < 500
    /\ \A i \in 1..Len(sent) :
          /\ sent[i] = sent[1]
          /\ sent[i].method = args.method
          /\ (sent[i].body = NoBody) = (sent[i].method = "GET" \/ ~Truthy(args.query_props))
          /\ {"Authorization", "User-Agent"} \subseteq sent[i].headers

\* a POST has been answered with a 5xx status MaxAttempts times in a row and
\* the call is still running
C3_Witness ==
    /\ pc = "running"
    /\ args.method = "POST"
    /\ Len(sent) = MaxAttempts
    /\ nserver = MaxAttempts
    /\ resp.status = 503

\* C4: an attempt in which the transport signals ResponseNotReady closes the
\* current connection, opens a new one and leaves the call running for a
\* retry, with the backoff delay unchanged and without an error.
C4_NotReadyReconnects ==
    [][(pc = "running" /\ signal' \in {"not_ready_request", "not_ready_read"}) =>
          /\ pc' = "running"
          /\ error' = NoException
          /\ conn' # conn
          /\ conn \notin open'
          /\ conn' \in open'
          /\ backoff' = backoff
          /\ args' = args]_vars

\* C17: when a _mexe call has ended, by a return or by an exception, no
\* connection that it opened is still open.
C17_NoConnectionLeftOpen ==
    pc \in {"returned", "raised"} => open = {}

(***************************************************************************)
(* Properties of the pagination walk (SpecPage)                            *)
(***************************************************************************)
\* query.length and query.total as the envelope r reports them, -1 if absent
ReportedLength(r) ==
    IF HasKey(r, "query") /\ HasKey(GetItem(r, "query"), "length")
    THEN GetItem(GetItem(r, "query"), "length").v ELSE -1

ReportedTotal(r) ==
    IF HasKey(r, "query") /\ HasKey(GetItem(r, "query"), "total")
    THEN GetItem(GetItem(r, "query"), "total").v ELSE -1

\* the offset and page size of the first request of the walk
FirstOffset == IF HasKey(pg_requests[1], "offset") THEN GetItem(pg_requests[1], "offset").v ELSE 0
FirstLength ==
    IF HasKey(pg_requests[1], "length") THEN GetItem(pg_requests[1], "length").v
    ELSE srv_length

\* C5: a finished walk from offset 0 over a server that pages T entities by
\* pages of L has yielded the T entities, each once and in server order, with
\* max(1, ceil(T/L)) page requests.
C5_WalkYieldsAll ==
    (srv_honest /\ pg_pc = "done" /\ FirstOffset = 0) =>
        /\ Len(yielded) = srv_total
        /\ \A i \in 1..Len(yielded) :
              yielded[i].k = "Gauge" /\ yielded[i].v.name = PyInt(i - 1)
        /\ Len(pg_requests) =
              (IF srv_total = 0 THEN 1 ELSE (srv_total + FirstLength - 1) \div FirstLength)

\* T = 12, L = 5: 12 entities, 3 requests
C5_Witness ==
    /\ srv_honest
    /\ pg_pc = "done"
    /\ FirstOffset = 0
    /\ srv_total = 12
    /\ FirstLength = 5
    /\ Len(yielded) = 12
    /\ Len(pg_requests) = 3

\* C6: a page whose query.length is 0 or absent is the last page requested:
\* the walk is never about to request a page after such a response, and a
\* walk that ended has yielded every entity of every page it received.
C6_EmptyLengthEndsWalk ==
    /\ (pg_pc = "request" /\ Len(pg_requests) > 0) => ReportedLength(pg_resp) > 0
    /\ pg_pc = "done" => yielded = received

\* the server reported total MaxTotal and length 0, on the second page of a
\* walk, with two entities in that page: the walk ended after yielding them
C6_Witness ==
    /\ ~srv_honest
    /\ pg_pc = "done"
    /\ Len(pg_requests) = 2
    /\ ReportedLength(pg_resp) = 0
    /\ ReportedTotal(pg_resp) = MaxTotal
    /\ Len(results) = 2
    /\ Len(yielded) > 2

\* query.offset of an envelope, the requested offset when it reports none
ReportedOffset(r, q) ==
    IF HasKey(r, "query") /\ HasKey(GetItem(r, "query"), "offset")
    THEN GetItem(GetItem(r, "query"), "offset").v ELSE ReqOffset(q)

\* query.length of an envelope, 0 when absent
EnvelopeLength(r) == IF ReportedLength(r) = -1 THEN 0 ELSE ReportedLength(r)

\* query.total of an envelope, the length when absent
EnvelopeTotal(r) == IF ReportedTotal(r) = -1 THEN EnvelopeLength(r) ELSE ReportedTotal(r)

\* C18: after the last entity of a page, the next page is requested exactly
\* when the reported offset plus the reported length is below the reported
\* total and the length is positive, and the offset then requested is the
\* reported offset plus the reported length.
C18_NextOffsetFromEnvelope ==
    [][(pg_pc = "page" /\ pg_pc' \in {"request", "done"}) =>
          /\ (pg_pc' = "request") <=>
                /\ ReportedOffset(pg_resp, query_props) + EnvelopeLength(pg_resp)
                      < EnvelopeTotal(pg_resp)
                /\ EnvelopeLength(pg_resp) > 0
          /\ pg_pc' = "request" =>
                ReqOffset(query_props') =
                    ReportedOffset(pg_resp, query_props) + EnvelopeLength(pg_resp)]_vars

\* C21: the walk is lazy and sequential.  The entities handed to the consumer
\* are, in order, the first entities received; before the consumer's first
\* next() no request was sent; a request is sent only inside a next() call and
\* only when every entity received so far was handed over; and after a page
\* request raised, every entity received was handed over and the walk sends
\* no further request.
C21_LazySequentialWalk ==
    /\ [](/\ Len(yielded) <= Len(received)
          /\ yielded = SubSeq(received, 1, Len(yielded))
          /\ demand = 0 => pg_requests = <<>>
          /\ pg_pc = "raised" => yielded = received)
    /\ [][/\ (pg_requests' # pg_requests /\ nwalks' = nwalks) =>
                /\ demand > Len(yielded)
                /\ yielded = received
                /\ pg_requests' = Append(pg_requests, query_props)
          /\ (pg_pc = "raised" /\ nwalks' = nwalks) => pg_requests' = pg_requests]_vars

\* the request for the second page raised after the entities of the first
\* page were handed over
C21_Witness ==
    /\ pg_pc = "raised"
    /\ Len(pg_requests) = 2
    /\ Len(yielded) >= 2
    /\ yielded = received
    /\ demand = Len(yielded) + 1

(***************************************************************************)
(* Properties of the Aggregator (SpecAgg, SpecFloor)                       *)
(***************************************************************************)
RECURSIVE SeqSum(_)
SeqSum(xs) == IF xs = <<>> THEN 0 ELSE xs[1] + SeqSum(Tail(xs))

SeqMin(xs) == CHOOSE x \in {xs[i] : i \in 1..Len(xs)} : \A i \in 1..Len(xs) : x <= xs[i]
SeqMax(xs) == CHOOSE x \in {xs[i] : i \in 1..Len(xs)} : \A i \in 1..Len(xs) : x >= xs[i]

\* the bucket holds for name exactly the summary of the values vs
Summarises(bucket, name, vs) ==
    IF vs = <<>> THEN ~HasKey(bucket, name)
    ELSE /\ HasKey(bucket, name)
         /\ GetItem(bucket, name).count = Len(vs)
         /\ GetItem(bucket, name).sum = SeqSum(vs)
         /\ GetItem(bucket, name).min = SeqMin(vs)
         /\ GetItem(bucket, name).max = SeqMax(vs)

\* C7: the untagged summary of a name is count, sum, min and max of the
\* values add was called with for that name since the last clear, the tagged
\* summary those of the add_tagged calls; neither depends on the other bucket
\* or on other names.
C7_SummaryOfAdds ==
    \A n \in Names :
        /\ Summarises(measurements, n, added[n])
        /\ Summarises(tagged_measurements, n, added_tagged[n])

\* three values added for one name, the smallest first and the largest second
C7_Witness ==
    /\ added["a"] = <<-2, 3, 0>>
    /\ HasKey(measurements, "a")
    /\ GetItem(measurements, "a") = [count |-> 3, sum |-> 1, min |-> -2, max |-> 3]

\* C8: every summary in either bucket has count >= 1 and
\* min*count <= sum <= max*count.
C8_MeanBetweenMinAndMax ==
    \A b \in {measurements, tagged_measurements} : \A i \in 1..Len(b.v) :
        LET m == b.v[i][2]
        IN  /\ m.count >= 1
            /\ m.min * m.count <= m.sum
            /\ m.sum <= m.max * m.count

\* a summary of several values that are not all equal
C8_Witness ==
    \E i \in 1..Len(tagged_measurements.v) :
        LET m == tagged_measurements.v[i][2]
        IN  m.count = 3 /\ m.min < m.max /\ m.sum < 0

\* C9: for a period p > 0 and the time t >= 0 (the caller-supplied time if
\* there is one, else the clock) floor_measure_time returns f = t - (t mod p),
\* with f mod p = 0 and f <= t < f + p.
C9_FloorOfTime ==
    (floor_args.period.k = "int" /\ floor_args.period.v > 0) =>
        LET p == floor_args.period.v
            t == IF floor_args.measure_time.k = "int" THEN floor_args.measure_time.v
                 ELSE floor_args.now
        IN  /\ floor_result.k = "int"
            /\ floor_result.v = t - (t % p)
            /\ floor_result.v % p = 0
            /\ floor_result.v <= t
            /\ t < floor_result.v + p

(***************************************************************************)
(* Properties of submit and clear (SpecSubmit)                             *)
(***************************************************************************)
\* whether the records of a request are the summaries of a bucket, one record
\* per metric name
CarriesBucket(post, bucket) ==
    /\ Len(post.query_props.measurements) = Len(bucket.v)
    /\ \A i \in 1..Len(bucket.v) :
          LET rs == {j \in 1..Len(post.query_props.measurements) :
                        post.query_props.measurements[j].name = bucket.v[i][1]}
          IN  /\ Cardinality(rs) = 1
              /\ \A j \in rs :
                    /\ post.query_props.measurements[j].count = bucket.v[i][2].count
                    /\ post.query_props.measurements[j].sum = bucket.v[i][2].sum
                    /\ post.query_props.measurements[j].min = bucket.v[i][2].min
                    /\ post.query_props.measurements[j].max = bucket.v[i][2].max

\* the number of non-empty buckets
NonEmptyBuckets ==
    (IF Len(measurements.v) > 0 THEN 1 ELSE 0)
  + (IF Len(tagged_measurements.v) > 0 THEN 1 ELSE 0)

\* C11: a submit() that returns has sent one POST to 'measurements' per
\* non-empty bucket, the untagged bucket first and the tagged bucket last, each
\* request carrying one summary record per metric name of its bucket, and it
\* leaves both buckets empty and the cached measure time unset.
C11_SubmitPostsEachBucketOnce ==
    [][(agg_op' = "submit" /\ ~agg_error') =>
          /\ Len(posts') = NonEmptyBuckets
          /\ \A i \in 1..Len(posts') :
                posts'[i].path = "measurements" /\ posts'[i].method = "POST"
          /\ Len(measurements.v) > 0 => CarriesBucket(posts'[1], measurements)
          /\ Len(tagged_measurements.v) > 0 =>
                CarriesBucket(posts'[Len(posts')], tagged_measurements)
          /\ measurements' = PyDict(<<>>)
          /\ tagged_measurements' = PyDict(<<>>)
          /\ measure_time' = PyNone]_vars

\* a submit() has returned after posting two batches, the first with two metrics
C11_Witness ==
    /\ agg_op = "submit"
    /\ ~agg_error
    /\ Len(posts) = 2
    /\ Len(posts[1].query_props.measurements) = 2
    /\ posts[1].query_props.source # PyNone
    /\ posts[2].query_props.tags # PyNone
    /\ measurements = PyDict(<<>>)

\* C12: clear() leaves both buckets empty and the cached time unset, sends no
\* request, leaves source, tags and period unchanged, and a clear() that
\* follows a clear() changes nothing.
C12_ClearIsIdempotent ==
    [][agg_op' = "clear" =>
          /\ measurements' = PyDict(<<>>)
          /\ tagged_measurements' = PyDict(<<>>)
          /\ measure_time' = PyNone
          /\ posts' = posts
          /\ source' = source /\ agg_tags' = agg_tags /\ period' = period
          /\ agg_op = "clear" =>
                UNCHANGED <<measurements, tagged_measurements, measure_time, period,
                            source, agg_tags, posts>>]_vars

\* clear() has emptied buckets that add calls had filled, on an Aggregator with
\* a source, tags and a period
C12_Witness ==
    /\ agg_op = "clear"
    /\ nadds > 0
    /\ accepted = {}
    /\ posts = <<>>
    /\ source # PyNone
    /\ Truthy(agg_tags)
    /\ Truthy(period)
    /\ measure_time = PyNone

\* C23: a submit() that raises leaves both buckets, the cached measure time,
\* source, tags and period as they were before the call, and a submit() that
\* empties a bucket has had every batch it sent accepted.
C23_RaisingSubmitKeepsState ==
    [][agg_op' = "submit" =>
          /\ agg_error' =>
                UNCHANGED <<measurements, tagged_measurements, measure_time,
                            source, agg_tags, period>>
          /\ (measurements' # measurements \/ tagged_measurements' # tagged_measurements) =>
                /\ ~agg_error'
                /\ \A i \in 1..Len(posts') : posts'[i].ok
                /\ Len(posts') = (IF Truthy(measurements) THEN 1 ELSE 0)
                                  + (IF Truthy(tagged_measurements) THEN 1 ELSE 0)]_vars

\* a submit() has raised on its second batch after the first was accepted, on an
\* Aggregator with a cached measure time: both buckets are still filled
C23_Witness ==
    /\ agg_op = "submit"
    /\ agg_error
    /\ Len(posts) = 2
    /\ posts[1].ok /\ ~posts[2].ok
    /\ Truthy(measurements)
    /\ Truthy(tagged_measurements)
    /\ measure_time # PyNone
    /\ source # PyNone

\* C24: when a period is set and one submit() has sent both batches, the
\* 'time' of the untagged batch equals the 'time' of the tagged batch, also
\* when the wall clock has advanced between the two sends.
C24_OneTimePerSubmit ==
    (agg_op = "submit" /\ Truthy(period) /\ Len(posts) = 2) =>
        posts[1].query_props.time = posts[2].query_props.time

\* C19: no add / add_tagged call is contained in more than one batch that the
\* server accepted.
C19_AcceptedAtMostOnce ==
    twice = {}

\* C20: the 'time' field of the payload last built by to_payload or
\* to_md_payload: with a period it is t - (t mod period), t being the explicit
\* time if one was supplied and the wall clock otherwise; with no period and an
\* explicit time it is that time; it is absent with neither.
C20_PayloadTime ==
    IF built.period # PyNone
    THEN LET t == IF built.measure_time # PyNone THEN built.measure_time.v ELSE built.now
         IN  built.payload.time = PyInt(t - (t % built.period.v))
    ELSE built.payload.time = built.measure_time

(***************************************************************************)
(* Properties of exceptions.get (SpecErrors)                               *)
(***************************************************************************)
\* whether the string t occurs in the string s
Contains(s, t) ==
    \E i \in 1..(Len(s) - Len(t) + 1) : SubSeq(s, i, i + Len(t) - 1) = t

\* the messages of a string or of a list of strings
MessagesUnder(v) ==
    IF v.k = "str" THEN <<v.v>> ELSE [i \in 1..Len(v.v) |-> v.v[i].v]

\* whether the message has a line 'prefix: m' for every message m under v
HasLineForEach(message, prefix, v) ==
    \A i \in 1..Len(MessagesUnder(v)) :
        Contains(message, prefix \o ": " \o MessagesUnder(v)[i])

\* the value of 'errors' in the payload
ErrorsOf(payload) == payload.v[1][2]

\* C13, as stated: for a payload {"errors": {field: value}} of the documented
\* shapes the message has a line 'field: m' for every message m under a
\* field and a line 'field: subfield: m' for every message m under a
\* sub-field.
C13_LinePerMessage ==
    (client_error # NoException /\ error_payload \in ErrorsPayloads) =>
        /\ client_error.type \in ClientErrorTypes
        /\ \A i \in 1..Len(ErrorsOf(error_payload).v) :
              LET f == ErrorsOf(error_payload).v[i][1]
                  v == ErrorsOf(error_payload).v[i][2]
              IN  IF v.k = "dict"
                  THEN \A j \in 1..Len(v.v) :
                          HasLineForEach(client_error.message,
                                         f \o ": " \o v.v[j][1], v.v[j][2])
                  ELSE HasLineForEach(client_error.message, f, v)

RECURSIVE Flatten(_)
Flatten(seqs) == IF Len(seqs) = 0 THEN <<>> ELSE seqs[1] \o Flatten(Tail(seqs))

\* the lines of one field: 'field: m' per message under the field, and one
\* line 'field: subfield: m1, ..., mn' per sub-field
LinesOfField(f, v) ==
    IF v.k = "dict"
    THEN [j \in 1..Len(v.v) |->
            f \o ": " \o v.v[j][1] \o ": " \o JoinStrings(MessagesUnder(v.v[j][2]), ", ")]
    ELSE [j \in 1..Len(MessagesUnder(v)) |-> f \o ": " \o MessagesUnder(v)[j]]

ExpectedLines(errors) ==
    Flatten([i \in 1..Len(errors.v) |-> LinesOfField(errors.v[i][1], errors.v[i][2])])

\* C13, amended: the message is '[code] ' followed by the lines joined by
\* ', ', the lines being, in the order of the payload, 'field: m' for every
\* message m under a field and one line 'field: subfield: m1, ..., mn' for
\* every sub-field, so every message of the payload occurs in it.
C13_LinePerSubField ==
    (client_error # NoException /\ error_payload \in ErrorsPayloads) =>
        /\ client_error.type \in ClientErrorTypes
        /\ client_error.code = error_code
        /\ client_error.message =
              "[" \o ToString(error_code) \o "] "
                  \o JoinStrings(ExpectedLines(ErrorsOf(error_payload)), ", ")

\* the documented payload {"errors": {"params": {"name": ["is not present"]}}}
\* has been turned into an exception
C13_Witness ==
    /\ error_payload =
          PyDict(<< <<"errors", PyDict(<< <<"params",
              PyDict(<< <<"name", PyList(<<PyStr("is not present")>>)>> >>)>> >>)>> >>)
    /\ client_error # NoException
    /\ Contains(client_error.message, "params: name: is not present")

\* C14: building the exception for a 4xx response never fails: whatever the
\* decoded body, the caller receives a ClientError (or one of its subclasses)
\* that carries the status code.
C14_ConstructionNeverFails ==
    client_error # NoException =>
        /\ client_error.type \in ClientErrorTypes
        /\ client_error.code = error_code

(***************************************************************************)
(* Properties of the query methods (SpecQuery)                             *)
(***************************************************************************)
\* whether the call op(**qp) violates its precondition
ViolatesPrecondition(op, qp) ==
    IF op \in {"get_tagged", "get_measurements"}
    THEN \/ ~HasKey(qp, "start_time") /\ ~HasKey(qp, "duration")
         \/ HasKey(qp, "start_time") /\ HasKey(qp, "end_time") /\ HasKey(qp, "duration")
    ELSE ~HasKey(qp, "start_time")

\* C15: a call of get_tagged / get_measurements with neither 'start_time' nor
\* 'duration' or with 'start_time', 'end_time' and 'duration' together, and a
\* call of get_composite / get_composite_tagged without 'start_time', raises
\* without any _mexe call and leaves the tag set of the connection as it was.
C15_PreconditionRaisesBeforeRequest ==
    [][(q_op' # "" /\ ViolatesPrecondition(q_op', q_args')) =>
          /\ q_error' # ""
          /\ q_mexe' = NoCall
          /\ tags' = tags]_vars

\* get_tagged was called with 'start_time', 'end_time' and 'duration' on a
\* connection that has tags, and raised
C15_Witness ==
    /\ q_op = "get_tagged"
    /\ HasKey(q_args, "start_time") /\ HasKey(q_args, "end_time") /\ HasKey(q_args, "duration")
    /\ q_error # ""
    /\ q_mexe = NoCall
    /\ Truthy(tags)

(***************************************************************************)
(* Properties of _make_request (SpecRequest)                               *)
(***************************************************************************)
\* the pairs of the query string for one parameter: 'k[]=x' for every item x
\* of a list (the brackets percent-encoded by urlencode), 'k=v' otherwise
PairsOf(key, val) ==
    IF val.k = "list"
    THEN [i \in 1..Len(val.v) |-> key \o "%5B%5D=" \o Format(val.v[i])]
    ELSE <<key \o "=" \o Format(val)>>

ExpectedQuery(qp) ==
    JoinStrings(Flatten([i \in 1..Len(qp.v) |-> PairsOf(qp.v[i][1], qp.v[i][2])]), "&")

\* C16: every request sent carries the parameters in one place: with
\* non-empty parameters and POST, PUT or DELETE they are the JSON body, the
\* Content-Type header is set and the URI has no query string; with non-empty
\* parameters and another method there is no body and the query string holds
\* them, a list under k as one pair 'k[]=x' per item, in order; with empty
\* parameters there is neither body nor query string.
C16_ParametersInOnePlace ==
    \A i \in 1..Len(sent) :
        IF Len(args.query_props.v) > 0 /\ args.method \in {"POST", "PUT", "DELETE"}
        THEN /\ sent[i].body = [json |-> args.query_props]
             /\ "Content-Type" \in sent[i].headers
             /\ sent[i].uri = BASE_PATH \o args.path
             /\ ~Contains(sent[i].uri, "?")
        ELSE IF Len(args.query_props.v) > 0
        THEN /\ sent[i].body = NoBody
             /\ sent[i].uri = BASE_PATH \o args.path \o "?" \o ExpectedQuery(args.query_props)
        ELSE /\ sent[i].body = NoBody
             /\ sent[i].uri = BASE_PATH \o args.path
             /\ ~Contains(sent[i].uri, "?")

\* a GET with a list parameter and a DELETE with parameters were sent
C16_Witness ==
    /\ Len(sent) > 0
    /\ \/ /\ args.method = "GET"
          /\ Contains(sent[1].uri, "names%5B%5D=a&names%5B%5D=b")
       \/ /\ args.method = "DELETE"
          /\ sent[1].body # NoBody

(***************************************************************************)
(* Properties of create_tagged_payload (SpecTags)                          *)
(***************************************************************************)
\* a tag dict as a mapping
AsMap(d) == [key \in {d.v[i][1] : i \in 1..Len(d.v)} |-> GetItem(d, key)]

\* the tags of the measurement m, none being the empty mapping
TagsOf(m) == IF HasKey(m, "tags") THEN AsMap(GetItem(m, "tags")) ELSE AsMap(PyDict(<<>>))

\* top overlaid with over: over wins on every common key
Overlay(top, over) ==
    [key \in DOMAIN top \cup DOMAIN over |-> IF key \in DOMAIN over THEN over[key] ELSE top[key]]

\* C10: the tags of the measurement of create_tagged_payload are the
\* top-level tags overlaid with the caller's when the caller gives tags and
\* inherit_tags is true, the caller's tags when it gives tags without
\* inheritance, and the top-level tags when it gives none.
C10_TagResolution ==
    HasKey(measurement, "name") =>
        LET caller == IF HasKey(tp_args, "tags") THEN AsMap(GetItem(tp_args, "tags"))
                      ELSE AsMap(PyDict(<<>>))
            inherit == HasKey(tp_args, "inherit_tags") /\ GetItem(tp_args, "inherit_tags").v
        IN  TagsOf(measurement) =
                (IF HasKey(tp_args, "tags")
                 THEN (IF inherit THEN Overlay(AsMap(tp_top), caller) ELSE caller)
                 ELSE AsMap(tp_top))

\* top {a:1, b:2} and caller {b:3} with inheritance give {a:1, b:3}
C10_Witness ==
    /\ tp_top = PyDict(<< <<"a", PyStr("1")>>, <<"b", PyStr("2")>> >>)
    /\ HasKey(tp_args, "tags")
    /\ GetItem(tp_args, "tags") = PyDict(<< <<"b", PyStr("3")>> >>)
    /\ HasKey(tp_args, "inherit_tags")
    /\ GetItem(tp_args, "inherit_tags") = PyBool(TRUE)
    /\ HasKey(measurement, "tags")
    /\ GetItem(measurement, "tags") = PyDict(<< <<"a", PyStr("1")>>, <<"b", PyStr("3")>> >>)

(***************************************************************************)
(* Properties of AppOpticsConnection.submit (SpecSend)                     *)
(***************************************************************************)
\* the measurements of the request the last submit call sent
SentMeasurements == GetItem(submitted.mexe.query_props, "measurements").v

\* C22: every submit / submit_measurement call either raises 'At least one
\* tag is needed.' and sends no request, or sends one measurement whose
\* 'tags' field holds at least one entry
C22_SentMeasurementIsTagged ==
    submitted # NoSubmit =>
        \/ /\ submitted.error = "At least one tag is needed."
           /\ submitted.mexe = NoCall
        \/ /\ submitted.error = ""
           /\ submitted.mexe.path = "measurements"
           /\ Len(SentMeasurements) = 1
           /\ HasKey(SentMeasurements[1], "tags")
           /\ Len(GetItem(SentMeasurements[1], "tags").v) >= 1

====
